---- MODULE Spec2Model ----
(***************************************************************************)
(* A model of the CVM distinct-count estimator `Cmv` (src/src/lib.rs).     *)
(*                                                                         *)
(* The estimator's fields are capacity, round and set.  The random source  *)
(* is modelled by the outcomes of its trials: every outcome the ratio      *)
(* allows is possible.  Fixed-width unsigned integers that are shifted are *)
(* modelled as the set of their one-bits, so that a shift can lose bits,   *)
(* wrap its amount, or fail, as it does in the program.                    *)
(***************************************************************************)
EXTENDS Integers, FiniteSets, Sequences, TLC

VARIABLES
    capacity,         \* Cmv::capacity
    round,            \* Cmv::round
    set,              \* Cmv::set, the retained sample
    hasher,           \* the BuildHasher of the set (DefaultRandomState or injected)
    overflow_checks,  \* the build's arithmetic-overflow checks (debug: on, release: off)
    panicked,         \* a call has panicked
    last,             \* the last call: its operation, item, trial outcome, effects
    ret,              \* the unsigned integer the last read-only call returned, as its bits
    seen,             \* history: the items passed to insert so far
    all_distinct,     \* history: no item has been passed to insert twice
    round2,           \* Cmv::round of a second estimator fed the same calls
    set2              \* Cmv::set of the second estimator

vars == <<capacity, round, set, hasher, overflow_checks, panicked, last, ret,
          seen, all_distinct, round2, set2>>

est2 == <<round2, set2>>

(***************************************************************************)
(* Bounds of the model.                                                    *)
(***************************************************************************)
MaxCap == 4           \* capacities 0..MaxCap
NumItems == 4         \* the items of a stream
MaxRound == 3         \* insert is called while round < MaxRound
NumDeepItems == 2     \* the items of a long stream
MaxDeepRound == 130   \* in a long stream, insert is called while round < MaxDeepRound
MaxTwinRound == 2     \* two estimators are fed while round < MaxTwinRound

Items == 1..NumItems
DeepItems == 1..NumDeepItems
NoItem == NumItems + 1   \* stands for the item of a call that takes none

(***************************************************************************)
(* Widths of the integer types that are shifted.                           *)
(***************************************************************************)
U32Bits == 32
U128Bits == 128

(***************************************************************************)
(* Unsigned integers as sets of bit positions.                             *)
(***************************************************************************)
\* The bits of a small natural number n (n < 2^8).
Bits(n) == {i \in 0..7 : (n \div (2^i)) % 2 = 1}

NoValue == {}

\* v * 2^k as a mathematical integer (no width).
TimesPow2(v, k) == {i + k : i \in v}

\* Rust's `v << k` on a w-bit unsigned integer fails when overflow checks are
\* on and k >= w.
shl_overflows(k, w) == overflow_checks /\ k >= w

\* Rust's `v << k` on a w-bit unsigned integer that does not fail: the amount
\* is taken modulo w, and bits shifted past the width are dropped.
shl(v, k, w) == {i + (k % w) : i \in v} \cap (0..(w - 1))

(***************************************************************************)
(* Construction.                                                           *)
(***************************************************************************)
Hashers == {"FxBuildHasher", "RandomState"}

with_capacity(c) == [capacity |-> c, round |-> 0, set |-> {}]

\* with_capacity_and_hasher starting with an item in the set.
with_capacity_and_hasher_nonempty(c, h) ==
    [capacity |-> c, round |-> 0, set |-> {1}, hasher |-> h]

\* with_capacity_and_hasher starting at round 1.
with_capacity_and_hasher_round1(c, h) ==
    [capacity |-> c, round |-> 1, set |-> {}, hasher |-> h]

with_capacity_and_hasher(c, h) == [capacity |-> c, round |-> 0, set |-> {}, hasher |-> h]

(***************************************************************************)
(* prob_keep: a trial with ratio 1 / (1 << round), the denominator a u32.  *)
(***************************************************************************)
prob_keep_panics(r) == shl_overflows(r, U32Bits)

prob_keep_denominator(r) == shl(Bits(1), r, U32Bits)

\* prob_keep with the ratio of the next round, 1 / (1 << (round + 1)).
prob_keep_next_round(r) ==
    IF prob_keep_denominator(r + 1) = Bits(1) THEN {TRUE} ELSE BOOLEAN

\* prob_keep whose trial can fail whatever the ratio.
prob_keep_uncertain(r) == BOOLEAN

\* The outcomes random_ratio(1, denominator) can give: certainly true when the
\* denominator is 1, either otherwise.
prob_keep(r) == IF prob_keep_denominator(r) = Bits(1) THEN {TRUE} ELSE BOOLEAN

(***************************************************************************)
(* insert                                                                  *)
(***************************************************************************)
\* The keep/evict step that skips an item that loses its trial, without
\* evicting it.
keep_or_skip(s, item, keep) == IF keep THEN s \cup {item} ELSE s

\* The keep/evict step whose eviction clears the sample.
keep_or_clear(s, item, keep) == IF keep THEN s \cup {item} ELSE {}

\* The keep/evict step: set.insert(item) or set.remove(&item).
keep_or_evict(s, item, keep) == IF keep THEN s \cup {item} ELSE s \ {item}

\* The orders in which a HashSet holding s can be iterated: every sequence of
\* its items without repetition, tabulated for the subsets of Items (@@ <<>>
\* leaves the function as it is and has TLC hold it as a table).
orders_table ==
    [s \in SUBSET Items |->
        {o \in [1..Cardinality(s) -> s] :
            \A i, j \in 1..Cardinality(s) : o[i] = o[j] => i = j}] @@ <<>>

Orders(s) == orders_table[s]

\* set.retain whose predicate ignores the trial and keeps every item.
retain_all(s, order, coins) == s

\* set.retain(|_| prob_keep(rng, 1)): the i-th item of the iteration gets the
\* i-th trial.
retain(s, order, coins) == {order[i] : i \in {j \in 1..Cardinality(s) : coins[j]}}

\* The samples a compaction of s can leave, over every iteration order and
\* every outcome of the trials, tabulated for the subsets of Items.
retain_table ==
    [s \in SUBSET Items |->
        {retain(s, order, coins) :
            order \in Orders(s), coins \in [1..Cardinality(s) -> prob_keep(1)]}] @@ <<>>

retain_outcomes(s) == retain_table[s]

\* The compaction guard as `>=`.
is_full_ge(s, cap) == Cardinality(s) >= cap

\* The compaction guard.
is_full(s, cap) == Cardinality(s) = cap

sample_size == Cardinality(set)

count_panics == shl_overflows(round, U128Bits)

count == shl(Bits(sample_size), round, U128Bits)

\* insert whose compaction leaves round as it is.
insert_same_round(cap, r, s, item, keep, kept) ==
    LET mid == keep_or_evict(s, item, keep) IN
    IF is_full(mid, cap)
    THEN [set |-> kept, round |-> r, mid |-> mid, compacted |-> TRUE,
          trials |-> 1 + Cardinality(mid)]
    ELSE [set |-> mid, round |-> r, mid |-> mid, compacted |-> FALSE,
          trials |-> 1]

\* insert on an estimator with capacity cap, round r and sample s, given the
\* outcome of the keep trial and the sample a compaction leaves.
insert(cap, r, s, item, keep, kept) ==
    LET mid == keep_or_evict(s, item, keep) IN
    IF is_full(mid, cap)
    THEN [set |-> kept, round |-> r + 1, mid |-> mid, compacted |-> TRUE,
          trials |-> 1 + Cardinality(mid)]
    ELSE [set |-> mid, round |-> r, mid |-> mid, compacted |-> FALSE,
          trials |-> 1]

(***************************************************************************)
(* The record of the last call.                                            *)
(***************************************************************************)
\* had: the item was in the sample when the call began.
Record(op, item, keep, mid, compacted, trials, repeat, had) ==
    [op |-> op, item |-> item, keep |-> keep, mid |-> mid,
     compacted |-> compacted, trials |-> trials, repeat |-> repeat,
     had |-> had]

NoCall(op) == Record(op, NoItem, FALSE, {}, FALSE, 0, FALSE, FALSE)

InsertRecord(item, keep, res) ==
    Record("insert", item, keep, res.mid, res.compacted, res.trials,
           last.op = "insert" /\ last.item = item, item \in set)

(***************************************************************************)
(* The state after construction: an estimator built by                     *)
(* with_capacity_and_hasher and a second one, of the same capacity, built  *)
(* by with_capacity, in a build with or without overflow checks.           *)
(***************************************************************************)
Init ==
    /\ \E c \in 0..MaxCap, h \in Hashers :
          LET e == with_capacity_and_hasher(c, h)
              d == with_capacity(c)
          IN /\ capacity = e.capacity /\ round = e.round /\ set = e.set
             /\ hasher = e.hasher
             /\ d.capacity = capacity
             /\ round2 = d.round /\ set2 = d.set
    /\ overflow_checks \in BOOLEAN
    /\ panicked = FALSE
    /\ last = NoCall("new")
    /\ ret = NoValue
    /\ seen = {}
    /\ all_distinct = TRUE

\* insert whose trial's shift fails: the call panics before it changes anything.
InsertPanic(item) ==
    /\ ~panicked
    /\ prob_keep_panics(round)
    /\ panicked' = TRUE
    /\ last' = NoCall("insert")
    /\ ret' = NoValue
    /\ UNCHANGED <<capacity, round, set, hasher, overflow_checks, seen,
                   all_distinct, est2>>

\* The effect of an insert call on the first estimator and on the history.
InsertEffect(item, keep, kept) ==
    LET res == insert(capacity, round, set, item, keep, kept) IN
    /\ set' = res.set
    /\ round' = res.round
    /\ last' = InsertRecord(item, keep, res)
    /\ seen' = seen \cup {item}
    /\ all_distinct' = (all_distinct /\ item \notin seen)
    /\ ret' = NoValue
    /\ UNCHANGED <<capacity, hasher, overflow_checks, panicked>>

\* An insert call that does not panic.
InsertCall(item) ==
    /\ ~panicked
    /\ ~prob_keep_panics(round)
    /\ \E keep \in prob_keep(round) :
          LET mid == keep_or_evict(set, item, keep) IN
          \E kept \in (IF is_full(mid, capacity) THEN retain_outcomes(mid) ELSE {mid}) :
             InsertEffect(item, keep, kept)
    /\ UNCHANGED est2

Insert(item) ==
    /\ round < MaxRound
    /\ InsertCall(item)

Round ==
    /\ ~panicked
    /\ last' = NoCall("round")
    /\ ret' = Bits(round)
    /\ UNCHANGED <<capacity, round, set, hasher, overflow_checks, panicked, seen,
                   all_distinct, est2>>

SampleSize ==
    /\ ~panicked
    /\ last' = NoCall("sample_size")
    /\ ret' = Bits(sample_size)
    /\ UNCHANGED <<capacity, round, set, hasher, overflow_checks, panicked, seen,
                   all_distinct, est2>>

Count ==
    /\ ~panicked
    /\ last' = NoCall("count")
    /\ IF count_panics
       THEN panicked' = TRUE /\ ret' = ret
       ELSE panicked' = panicked /\ ret' = count
    /\ UNCHANGED <<capacity, round, set, hasher, overflow_checks, seen,
                   all_distinct, est2>>

Next ==
    \/ \E item \in Items : Insert(item)
    \/ Round
    \/ SampleSize
    \/ Count

Spec == Init /\ [][Next]_vars

(***************************************************************************)
(* Long streams: the calls go on until round reaches MaxDeepRound, past    *)
(* the widths of the shifted integers.                                     *)
(***************************************************************************)
DeepInsert(item) ==
    /\ round < MaxDeepRound
    /\ InsertCall(item)

NextDeep ==
    \/ \E item \in DeepItems : DeepInsert(item)
    \/ \E item \in DeepItems : InsertPanic(item)
    \/ Round
    \/ SampleSize
    \/ Count

SpecDeep == Init /\ [][NextDeep]_vars

(***************************************************************************)
(* Two estimators of the same capacity fed the same items from the same    *)
(* seeded random source (tests::run, run_bench).  The source gives both    *)
(* the same outcome for the i-th trial of a call; each estimator hands the *)
(* trials of a compaction to its items in its own set's iteration order.   *)
(* A set hashed by FxBuildHasher iterates in an order fixed by its         *)
(* history; one hashed by RandomState iterates in an order that depends on *)
(* the keys that instance drew.  The calls go on while the two estimators  *)
(* have drawn the same number of trials.                                   *)
(***************************************************************************)
sample_size2 == Cardinality(set2)

count2 == shl(Bits(sample_size2), round2, U128Bits)

\* The iteration orders of the second estimator's set holding m2, when the
\* first one's set, holding m1, iterates in order1.
second_orders(order1, m1, m2) ==
    IF hasher = "FxBuildHasher" /\ m1 = m2 THEN {order1} ELSE Orders(m2)

\* The pairs of samples the two estimators are left with after the keep/evict
\* step gave m1 and m2: each one that is full compacts, with the same trials.
twin_retain_outcomes(m1, m2) ==
    UNION {{<<IF is_full(m1, capacity) THEN retain(m1, order1, coins) ELSE m1,
              IF is_full(m2, capacity) THEN retain(m2, order2, coins) ELSE m2>> :
               coins \in [1..capacity -> prob_keep(1)],
               order2 \in second_orders(order1, m1, m2)} :
           order1 \in Orders(m1)}

TwinInsert(item) ==
    /\ ~panicked
    /\ round < MaxTwinRound
    /\ ~prob_keep_panics(round)
    /\ round2 = round /\ sample_size2 = sample_size
    /\ \E keep \in prob_keep(round) :
          LET mid1 == keep_or_evict(set, item, keep)
              mid2 == keep_or_evict(set2, item, keep)
          IN \E kept \in twin_retain_outcomes(mid1, mid2) :
                LET res2 == insert(capacity, round2, set2, item, keep, kept[2])
                IN /\ InsertEffect(item, keep, kept[1])
                   /\ set2' = res2.set
                   /\ round2' = res2.round

NextTwin == \E item \in Items : TwinInsert(item)

SpecTwin == Init /\ [][NextTwin]_vars

(***************************************************************************)
(* Properties.                                                             *)
(***************************************************************************)

\* C1: with capacity >= 1, the sample never holds more than capacity items
\* after an insert call.
C1_SampleWithinCapacity ==
    capacity >= 1 => sample_size <= capacity

\* C2: count() returns sample_size() * 2^round() as a mathematical integer, and
\* does not fail.
C2_CountIsSizeTimesPow2 ==
    /\ ~count_panics
    /\ (last.op = "count" /\ ~panicked
          => ret = TimesPow2(Bits(sample_size), round))

\* C3: a step leaves round unchanged or raises it by exactly 1, and raises it
\* only in an insert call that compacted, the sample size having equalled
\* capacity after the keep/evict step.
C3_RoundStep ==
    [][\/ round' = round
       \/ /\ round' = round + 1
          /\ last'.op = "insert"
          /\ last'.compacted
          /\ Cardinality(last'.mid) = capacity]_vars

C3_Witness ==
    last.op = "insert" /\ last.compacted /\ round = 40 /\ capacity = 2

\* C4: while fewer than capacity distinct items have been inserted, round is 0,
\* the sample is the set of the items inserted and count() is their number.
C4_ExactBelowCapacity ==
    Cardinality(seen) < capacity =>
        /\ round = 0
        /\ set = seen
        /\ ~count_panics
        /\ count = Bits(Cardinality(seen))
        /\ (last.op = "count" => ret = Bits(Cardinality(seen)))

C4_Witness ==
    /\ capacity = 3 /\ Cardinality(seen) = 2 /\ ~all_distinct
    /\ last.op = "count" /\ ret = Bits(2)

\* C5: two estimators of the same capacity fed the same items and the same
\* random outcomes agree on (round(), sample_size(), count()) after every
\* insert.
C5_TwinsAgree ==
    /\ round2 = round
    /\ sample_size2 = sample_size
    /\ count2 = count

\* C6: before any insert, an estimator built by either constructor has
\* round() = 0, sample_size() = 0 and count() = 0.
C6_ZeroState ==
    seen = {} /\ last.op # "insert" =>
        /\ round = 0 /\ sample_size = 0 /\ count = Bits(0) /\ ~count_panics
        /\ round2 = 0 /\ sample_size2 = 0 /\ count2 = Bits(0)
        /\ (last.op = "round" => ret = Bits(0))
        /\ (last.op = "sample_size" => ret = Bits(0))
        /\ (last.op = "count" => ret = Bits(0))

C6_Witness ==
    seen = {} /\ last.op = "count" /\ capacity = 2 /\ hasher = "RandomState"

\* C7: no estimator of capacity 0 exists and receives inserts.
C7_NoZeroCapacity ==
    ~(capacity = 0 /\ last.op = "insert")

\* C8: with capacity >= 1, no call of insert, count, round or sample_size
\* fails.
C8_Total ==
    capacity >= 1 => ~panicked

\* C9: while no compaction has occurred (round 0), inserting again the item
\* that the previous call inserted leaves sample_size() and round() unchanged.
C9_RepeatIdempotent ==
    [][(/\ last.op = "insert"
        /\ round = 0
        /\ last'.op = "insert"
        /\ last'.item = last.item)
          => sample_size' = sample_size /\ round' = round]_vars

C9_Witness ==
    /\ last.op = "insert" /\ last.repeat /\ round = 0
    /\ capacity = 3 /\ sample_size = 2

\* C10: inserting capacity distinct items into a fresh estimator (capacity >=
\* 1) compacts exactly once, on the last of them and not before; afterwards
\* round() = 1, sample_size() <= capacity and count() = sample_size() * 2.
C10_FillCompactsOnce ==
    capacity >= 1 /\ all_distinct =>
        /\ (Cardinality(seen) < capacity =>
               round = 0 /\ (last.op = "insert" => ~last.compacted))
        /\ (Cardinality(seen) = capacity =>
               /\ round = 1
               /\ (last.op = "insert" => last.compacted)
               /\ sample_size <= capacity
               /\ ~count_panics
               /\ count = TimesPow2(Bits(sample_size), 1)
               /\ (last.op = "count" => ret = TimesPow2(Bits(sample_size), 1)))

C10_Witness ==
    /\ all_distinct /\ capacity = 3 /\ Cardinality(seen) = 3
    /\ last.op = "count" /\ round = 1 /\ sample_size = 3

\* C12: with capacity >= 1, the sample is strictly smaller than capacity when
\* an insert call returns, and is never larger than capacity at the
\* `== capacity` test.
C12_BelowCapacityOnReturn ==
    capacity >= 1 /\ last.op = "insert" /\ last.item # NoItem =>
        /\ sample_size < capacity
        /\ Cardinality(last.mid) <= capacity

\* C13: in insert(x), x is in the sample after the keep/evict step if and only
\* if the trial succeeded; after a call whose trial failed, x is not in the
\* sample.
C13_KeepOrEvict ==
    [][last'.op = "insert" /\ last'.item # NoItem =>
          /\ (last'.item \in last'.mid) <=> last'.keep
          /\ \A y \in Items \ {last'.item} : (y \in last'.mid) <=> (y \in set)
          /\ (~last'.keep => last'.item \notin set')]_vars

C13_Witness ==
    /\ last.op = "insert" /\ last.had /\ ~last.keep
    /\ last.item \notin set /\ sample_size = 2 /\ ~last.compacted

\* C14: at every round an insert call is made at, the denominator of the keep
\* trial is 2^round, computed without wrap-around or failure; the trial is
\* certain only at round 0 and can fail at every round >= 1.
C14_RetentionRatio ==
    [][last'.op = "insert" =>
          /\ ~prob_keep_panics(round)
          /\ prob_keep_denominator(round) = TimesPow2(Bits(1), round)
          /\ (round >= 1 => FALSE \in prob_keep(round))
          /\ (round = 0 => prob_keep(round) = {TRUE})]_vars

\* C15: a compaction leaves a subset of the sample it found, adds no item and
\* raises round by exactly 1; every subset of that sample, the whole of it and
\* the empty one included, is an outcome some trials give (stated of the
\* states construction or an insert call leaves; the read-only calls leave the
\* same estimators).
C15_CompactionOnlyRemoves ==
    /\ [][last'.op = "insert" /\ last'.compacted =>
             /\ last'.mid = keep_or_evict(set, last'.item, last'.keep)
             /\ set' \subseteq last'.mid
             /\ round' = round + 1]_vars
    /\ [](\A x \in Items : \A k \in prob_keep(round) :
             LET mid == keep_or_evict(set, x, k) IN
             (/\ last.op \in {"new", "insert"}
              /\ ~panicked /\ ~prob_keep_panics(round) /\ is_full(mid, capacity)) =>
                 \A K \in SUBSET mid :
                    ENABLED (/\ InsertCall(x)
                             /\ last'.keep = k
                             /\ last'.compacted
                             /\ set' = K))

C15_Witness ==
    /\ last.op = "insert" /\ last.compacted /\ capacity = 3
    /\ Cardinality(last.mid) = 3 /\ sample_size = 1 /\ round = 2

\* C16: an insert(x) call that does not compact leaves round and the
\* membership of every item other than x unchanged, and changes sample_size()
\* by at most 1; no operation changes capacity.
C16_InsertFrame ==
    [][/\ capacity' = capacity
       /\ (last'.op = "insert" /\ ~last'.compacted =>
             /\ round' = round
             /\ \A y \in Items \ {last'.item} : (y \in set') <=> (y \in set)
             /\ Cardinality(set') - sample_size \in {-1, 0, 1})]_vars

C16_Witness ==
    /\ last.op = "insert" /\ ~last.compacted /\ last.had /\ ~last.keep
    /\ sample_size = 3 /\ round = 1

\* C17: every insert call performs exactly one keep trial, and further trials
\* only if it compacts: then one per item of the sample at that moment, at
\* most capacity of them.
C17_TrialsPerInsert ==
    last.op = "insert" =>
        /\ last.trials = 1 + (IF last.compacted THEN Cardinality(last.mid) ELSE 0)
        /\ last.trials - 1 <= capacity

C19_SampleWithinSeen ==
    /\ set \subseteq seen
    /\ sample_size <= Cardinality(seen)
    /\ (last.op = "insert" => last.mid \subseteq seen)

C19_Witness ==
    /\ last.op = "insert" /\ Cardinality(seen) = 4 /\ sample_size = 1
    /\ round = 2 /\ capacity = 2

====
